---------------------------- MODULE Spec2Model ----------------------------
(***************************************************************************)
(* A model of ipsuite/configuration_generation/packmol.py: the version     *)
(* probe get_packmol_version, the node Packmol (one configuration) and the *)
(* node MultiPackmol (n_configurations configurations).                    *)
(*                                                                         *)
(* Lengths (box, tolerance) are fixed-point integers in units of 1e-5      *)
(* angstrom; a value written with the format :.4f is an integer in units   *)
(* of 1e-4.  None is the empty sequence for box and density.               *)
(***************************************************************************)
EXTENDS Integers, Sequences, FiniteSets, TLC

\* ------------------------------------------------------------------ bounds
MaxSpecies == 2
MaxPool == 2
MaxCount == 2
MaxConfigs == 2
MaxLines == 2
RngMod == 16

\* the version threshold of the pbc directive
PbcVersion == 20150

\* --------------------------------------------------------------- variables
VARIABLES
    \* the node
    req,              \* the parameters the node was constructed with
    env,              \* the installed solver: its banner, whether it starts
    pc,               \* the position of the node's control
    box,              \* self.box
    xyz,              \* coordinate files written, as [name, species, instance]
    inp,              \* script files written, as [name, text]
    out,              \* coordinate files the solver has written
    spawned,          \* the subprocesses started so far
    packmol_version,  \* the local packmol_version of run
    scaled_box,       \* the local scaled_box of run
    file,             \* the locals file / file_head of run
    idx,              \* the configuration index of MultiPackmol.run
    atoms,            \* self.atoms
    rng,              \* the state of numpy's global random generator
    choices_log,      \* the indices drawn by the current run
    prev_log,         \* the indices drawn by the run before
    run_no,           \* the number of the current execution of run
    \* the version probe
    ppc,              \* the position of get_packmol_version
    proc,             \* the solver process of the probe
    to_print,         \* the lines the process has still to print
    pipe,             \* the lines in the stdout pipe
    rpc,              \* the position of the reader thread
    output_lines,     \* the list the reader appends to
    calls,            \* the calls get_packmol_version has made, in order
    result            \* the outcome of get_packmol_version

nodeVars == <<req, env, pc, box, xyz, inp, out, spawned, packmol_version,
              scaled_box, file, idx, atoms, rng, choices_log, prev_log, run_no>>
probeVars == <<ppc, proc, to_print, pipe, rpc, output_lines, calls, result>>
vars == <<nodeVars, probeVars>>

\* ----------------------------------------------------------------- helpers
SeqsUpTo(S, lo, n) == UNION {[1..k -> S] : k \in lo..n}

RECURSIVE SumSeq(_)
SumSeq(s) == IF s = <<>> THEN 0 ELSE s[1] + SumSeq(Tail(s))

Min(S) == CHOOSE x \in S : \A y \in S : x <= y

Abs(x) == IF x < 0 THEN -x ELSE x

Prefixes(s) == {SubSeq(s, 1, k) : k \in 0..Len(s)}

\* ------------------------------------------------- the format :.4f (l. 138)
\* x is in units of 1e-5, the result in units of 1e-4: the decimal the text
\* shows, rounded half to even.
Fmt4(x) ==
    LET a == Abs(x)
        q == a \div 10
        r == a % 10
        m == IF r > 5 \/ (r = 5 /\ q % 2 = 1) THEN q + 1 ELSE q
    IN  IF x < 0 THEN -m ELSE m

FmtBox(b) == [i \in DOMAIN b |-> Fmt4(b[i])]

\* --------------------------------------------- file names (f-strings)
SingleCoordName(i) == ToString(i) \o ".xyz"
MultiCoordName(j, k) == ToString(j) \o "_" \o ToString(k) \o ".xyz"
SingleScriptName == "packmole.inp"
SingleOutputName == "mixture.xyz"
MultiScriptName(i) == "packmole_" \o ToString(i) \o ".inp"
MultiOutputName(i) == "mixture_" \o ToString(i) \o ".xyz"

\* ------------------------------------------------------- version strings
\* A version is <<major, minor, patch>>, each a non-empty sequence of
\* decimal digits, as the pattern (\d+\.\d+\.\d+) captures it.
RECURSIVE DigitsToInt(_)
DigitsToInt(d) ==
    IF d = <<>> THEN 0 ELSE 10 * DigitsToInt(SubSeq(d, 1, Len(d) - 1)) + d[Len(d)]

\* int(packmol_version.replace(".", ""))
VersionInt(v) == DigitsToInt(v[1] \o v[2] \o v[3])

\* the order of versions: major, then minor, then patch
SemLeq(v, w) ==
    LET a == <<DigitsToInt(v[1]), DigitsToInt(v[2]), DigitsToInt(v[3])>>
        b == <<DigitsToInt(w[1]), DigitsToInt(w[2]), DigitsToInt(w[3])>>
    IN  \/ a[1] < b[1]
        \/ a[1] = b[1] /\ a[2] < b[2]
        \/ a[1] = b[1] /\ a[2] = b[2] /\ a[3] <= b[3]

V18_0_0 == <<<<1, 8>>, <<0>>, <<0>>>>
V18_3_0 == <<<<1, 8>>, <<3>>, <<0>>>>
V20_15_0 == <<<<2, 0>>, <<1, 5>>, <<0>>>>
V20_15_1 == <<<<2, 0>>, <<1, 5>>, <<1>>>>
V21_0_0 == <<<<2, 1>>, <<0>>, <<0>>>>
V2_0_1 == <<<<2>>, <<0>>, <<1>>>>
V20_2_10 == <<<<2, 0>>, <<2>>, <<1, 0>>>>

\* ------------------------------------------------ the banner of the solver
\* A line of output: whether it contains "Version", and the first token
\* "Version X.Y.Z" in it (<<>> when it holds none).
Line(word, tok) == [word |-> word, tok |-> tok]
PlainLine == Line(FALSE, <<>>)
WordLine == Line(TRUE, <<>>)
VersionLine(v) == Line(TRUE, v)
ErrorLine == Line(FALSE, <<>>)

\* re.search(r"Version (\d+\.\d+\.\d+)", "".join(lines)): the first token
MatchesOf(lines) == {i \in DOMAIN lines : lines[i].tok # <<>>}

VersionSearch(lines) ==
    IF MatchesOf(lines) = {} THEN <<>> ELSE lines[Min(MatchesOf(lines))].tok


\* the lines the reader can have captured: it stops after the first line
\* that contains "Version", and the process may be ended before it has
\* printed them all
FirstWord(lines) ==
    IF \E i \in DOMAIN lines : lines[i].word
    THEN Min({i \in DOMAIN lines : lines[i].word})
    ELSE Len(lines)

CutAtVersion(lines) == SubSeq(lines, 1, FirstWord(lines))

\* l. 58-66: the outcome of get_packmol_version for the captured lines.  The
\* ValueError of l. 63 is raised inside the try of l. 31, and the handler of
\* l. 65 returns a text for it: the function returns in both cases.
Outcome(kind, version, error) ==
    [kind |-> kind, version |-> version, error |-> error]

NoOutcome == Outcome("none", <<>>, "")

ExceptHandler(e) == Outcome("return", <<>>, "An error occurred: " \o e)

GetVersionOutcome(lines) ==
    IF VersionSearch(lines) # <<>>
    THEN Outcome("return", VersionSearch(lines), "")
    ELSE ExceptHandler("Could not find version in packmol output")

\* the version in the text returned: <<>> when the text is no version
ReturnedValue(lines) == GetVersionOutcome(lines).version

Captures(e) == IF e.launch THEN Prefixes(CutAtVersion(e.banner)) ELSE {<<>>}

\* ------------------------------------------------- indexing a Python list
PyValid(n, i) == -n <= i /\ i < n
PyIndex(n, i) == IF i < 0 THEN i + n ELSE i

\* ------------------------------------------- numpy's global generator
\* np.random.seed(seed) and one draw of np.random.choice: a generator whose
\* next value is a function of its state alone.
SeedState(seed) == seed % RngMod
KeepState(seed, s) == s
Reseed(seed, s) == SeedState(seed)
NextRng(s) == (5 * s + 3) % RngMod

\* np.random.choice(P, C): C draws from 0..P-1, with replacement
RECURSIVE Choice(_, _, _)
Choice(s, P, C) ==
    IF C = 0 THEN [state |-> s, choices |-> <<>>]
    ELSE LET s1 == NextRng(s)
             rest == Choice(s1, P, C - 1)
         IN  [state |-> rest.state, choices |-> <<(s1 \div 4) % P>> \o rest.choices]

\* ----------------------------------------- get_box_from_density (external)
\* a cube whose volume grows with the number of molecules
BoxFromDensity(data, count, density) ==
    LET side == (310000 * SumSeq(count) * 997) \div density
    IN  <<side, side, side>>

\* --------------------------------------------------------------- requests
Req(mode, data, count, has_ids, ids, tol, b, density, pbc, n, seed) ==
    [mode |-> mode, data |-> data, count |-> count, has_ids |-> has_ids,
     data_ids |-> ids, tolerance |-> tol, box |-> b, density |-> density,
     pbc |-> pbc, n_configurations |-> n, seed |-> seed]

Env(banner, launch) == [banner |-> banner, launch |-> launch]

Pools == SeqsUpTo(1..MaxPool, 1, MaxSpecies) \cup {<<0>>}
Counts == SeqsUpTo(1..MaxCount, 1, MaxSpecies)
Ids == {[i \in 1..k |-> c] : k \in 1..MaxSpecies, c \in {-1, 1}}
Seeds == {42, 7}
Tolerances == {200000, 50000}
Boxes == {<<>>, <<1000000>>, <<1000000, 1000000, 1000000>>,
          <<300000, 1000002, 400007>>, <<400004, 400012, 800000>>}
Densities == {<<>>, <<997>>}
Versions == {V18_0_0, V18_3_0, V20_15_0, V20_15_1, V21_0_0, V2_0_1, V20_2_10}
NodeBanners == {<<PlainLine, VersionLine(v)>> : v \in Versions}
                   \cup {<<PlainLine>>, <<WordLine, VersionLine(V18_0_0)>>}

\* requests that vary the species, with the geometry fixed
SpeciesRequests ==
    {Req("single", d, c, FALSE, <<>>, 200000, <<1000000>>, <<>>, TRUE, 0, 42)
        : d \in Pools, c \in Counts}
    \cup {Req("single", d, c, TRUE, i, 200000, <<1000000>>, <<>>, TRUE, 0, 42)
        : d \in Pools, c \in Counts, i \in Ids}
    \cup {Req("multi", d, c, FALSE, <<>>, 200000, <<1000000>>, <<>>, TRUE, n, s)
        : d \in Pools, c \in Counts, n \in 1..MaxConfigs, s \in Seeds}

\* requests that vary the geometry, with the species fixed
GeometryRequests ==
    {Req(m, <<2, 1>>, <<1, 2>>, FALSE, <<>>, t, b, d, p,
         IF m = "multi" THEN 1 ELSE 0, 42)
        : m \in {"single", "multi"}, t \in Tolerances, b \in Boxes,
          d \in Densities, p \in BOOLEAN}

Scenarios ==
    (SpeciesRequests \X {Env(<<PlainLine, VersionLine(V20_15_1)>>, TRUE)})
    \cup (GeometryRequests \X ({Env(b, TRUE) : b \in NodeBanners}
                                 \cup {Env(<<>>, FALSE)}))

NoScript == [tolerance |-> 0, output |-> "", pbc |-> <<>>, blocks |-> <<>>]

ProbeIdle ==
    /\ ppc = "idle"
    /\ proc = "none"
    /\ to_print = <<>>
    /\ pipe = <<>>
    /\ rpc = "idle"
    /\ output_lines = <<>>
    /\ calls = <<>>
    /\ result = NoOutcome

Init ==
    /\ \E sc \in Scenarios : req = sc[1] /\ env = sc[2]
    /\ pc = "new"
    /\ box = req.box
    /\ xyz = {}
    /\ inp = {}
    /\ out = {}
    /\ spawned = {}
    /\ packmol_version = <<>>
    /\ scaled_box = <<>>
    /\ file = NoScript
    /\ idx = 0
    /\ atoms = <<>>
    /\ rng \in {3, 9}
    /\ choices_log = <<>>
    /\ prev_log = <<>>
    /\ run_no = 1
    /\ ProbeIdle

\* ------------------------------------------------------ Packmol._post_init_
ConfigErrorNoCount(r) ==
    \/ r.box = <<>> /\ r.density = <<>>
    \/ r.has_ids /\ Len(r.data) # Len(r.data_ids)

ConfigError(r) ==
    \/ r.box = <<>> /\ r.density = <<>>
    \/ Len(r.data) # Len(r.count)
    \/ r.has_ids /\ Len(r.data) # Len(r.data_ids)

Broadcast(b) == IF Len(b) = 1 THEN <<b[1], b[1], b[1]>> ELSE b

PostInit ==
    /\ pc = "new"
    /\ IF ConfigError(req)
       THEN pc' = "config_error" /\ box' = box
       ELSE pc' = "ready" /\ box' = Broadcast(box)
    /\ UNCHANGED <<probeVars, req, env, xyz, inp, out, spawned, packmol_version, scaled_box,
                   file, idx, atoms, rng, choices_log, prev_log, run_no>>


\* ------------------------------------------------------------ files
\* ase.io.write and open("w"): a file of the same name is replaced
WriteFile(fs, f) == {g \in fs : g.name # f.name} \cup {f}

RECURSIVE WriteAll(_, _)
WriteAll(fs, writes) ==
    IF writes = <<>> THEN fs
    ELSE WriteAll(WriteFile(fs, Head(writes)), Tail(writes))

Coord(name, species, instance) ==
    [name |-> name, species |-> species, instance |-> instance]

Names(fs) == {f.name : f \in fs}

ScriptOnDisk(name) == (CHOOSE f \in inp : f.name = name).text

Block(structure, number, inside) ==
    [structure |-> structure, number |-> number, inside |-> inside]

\* ------------------------------------- the version gate (l. 132-151, 231-250)
\* the pbc line of the script: the box as written, or <<>> for no line
SinglePbcLine(pbc, version, b) ==
    IF pbc /\ VersionInt(version) >= PbcVersion THEN FmtBox(b) ELSE <<>>

ShrinkBox(b, tol) == [i \in DOMAIN b |-> b[i] - 2 * tol]

SingleScaledBoxNoShrink(pbc, version, b, tol) == b

SingleScaledBox(pbc, version, b, tol) ==
    IF pbc /\ VersionInt(version) >= PbcVersion THEN b
    ELSE IF pbc /\ VersionInt(version) < PbcVersion THEN ShrinkBox(b, tol)
    ELSE b

MultiPbcLine(pbc, version, b) ==
    IF pbc /\ VersionInt(version) >= PbcVersion THEN FmtBox(b) ELSE <<>>

MultiScaledBox(pbc, version, b, tol) ==
    IF pbc /\ VersionInt(version) >= PbcVersion THEN b
    ELSE IF pbc /\ VersionInt(version) < PbcVersion THEN ShrinkBox(b, tol)
    ELSE b

\* ---------------------------------------------------- the structure read back
CellOfScaled(pbc, b, scaled) == IF pbc THEN scaled ELSE <<>>
StampedCell(pbc, b, scaled) == IF pbc THEN b ELSE <<>>

Structure(source, pbc, b, scaled) ==
    [source |-> source, cell |-> StampedCell(pbc, b, scaled), pbc |-> pbc]

\* ------------------------------------------------------------- Packmol.run
\* l. 116-118: one coordinate file per entry of data, until an index fails
Selected(r, i) == IF r.has_ids THEN r.data_ids[i] ELSE -1

BadSelections(r) ==
    {i \in DOMAIN r.data : ~PyValid(r.data[i], Selected(r, i))}

SingleWritten(r) ==
    IF BadSelections(r) = {} THEN Len(r.data) ELSE Min(BadSelections(r)) - 1

SingleCoordWrites(r) ==
    [i \in 1..SingleWritten(r) |->
        Coord(SingleCoordName(i - 1), i - 1, PyIndex(r.data[i], Selected(r, i)))]

S_WriteCoords ==
    /\ pc = "ready"
    /\ req.mode = "single"
    /\ xyz' = WriteAll(xyz, SingleCoordWrites(req))
    /\ pc' = IF BadSelections(req) = {} THEN "s_box" ELSE "index_error"
    /\ UNCHANGED <<probeVars, req, env, box, inp, out, spawned, packmol_version, scaled_box,
                   file, idx, atoms, rng, choices_log, prev_log, run_no>>

\* l. 120-127 (and 220-226): the box from the density, the head of the script
ResolvedBox(r, b) ==
    IF r.density # <<>> THEN BoxFromDensity(r.data, r.count, r.density[1]) ELSE b

S_ResolveBox ==
    /\ pc = "s_box"
    /\ box' = ResolvedBox(req, box)
    /\ file' = [tolerance |-> req.tolerance, output |-> SingleOutputName,
                pbc |-> <<>>, blocks |-> <<>>]
    /\ pc' = "s_probe"
    /\ UNCHANGED <<probeVars, req, env, xyz, inp, out, spawned, packmol_version, scaled_box,
                   idx, atoms, rng, choices_log, prev_log, run_no>>

\* l. 129: the call of get_packmol_version
S_GetVersion ==
    /\ pc = "s_probe"
    /\ \E c \in Captures(env) : packmol_version' = ReturnedValue(c)
    /\ spawned' = spawned \cup {"packmol"}
    /\ pc' = "s_branch"
    /\ UNCHANGED <<probeVars, req, env, box, xyz, inp, out, scaled_box, file, idx, atoms,
                   rng, choices_log, prev_log, run_no>>

\* l. 132-151: int() of a text that is no version raises ValueError
S_Branch ==
    /\ pc = "s_branch"
    /\ IF packmol_version = <<>>
       THEN /\ pc' = "version_error"
            /\ UNCHANGED <<scaled_box, file>>
       ELSE /\ scaled_box' =
                   SingleScaledBox(req.pbc, packmol_version, box, req.tolerance)
            /\ file' = [file EXCEPT
                   !.pbc = SinglePbcLine(req.pbc, packmol_version, box)]
            /\ pc' = "s_script"
    /\ UNCHANGED <<probeVars, req, env, box, xyz, inp, out, spawned, packmol_version, idx,
                   atoms, rng, choices_log, prev_log, run_no>>

\* l. 153-161: one block per entry of count, and the script written
SingleBlocks(r, scaled) ==
    [i \in DOMAIN r.count |->
        Block(SingleCoordName(i - 1), r.count[i], FmtBox(scaled))]

S_WriteScript ==
    /\ pc = "s_script"
    /\ file' = [file EXCEPT !.blocks = SingleBlocks(req, scaled_box)]
    /\ inp' = WriteFile(inp, [name |-> SingleScriptName, text |-> file'])
    /\ pc' = "s_solve"
    /\ UNCHANGED <<probeVars, req, env, box, xyz, out, spawned, packmol_version, scaled_box,
                   idx, atoms, rng, choices_log, prev_log, run_no>>

\* l. 163: check_call; the solver writes the output its script names, or fails
S_Solve ==
    /\ pc = "s_solve"
    /\ spawned' = spawned \cup {"packmol < " \o SingleScriptName}
    /\ \/ /\ out' = out \cup {ScriptOnDisk(SingleScriptName).output}
          /\ pc' = "s_read"
       \/ /\ out' = out
          /\ pc' = "solver_error"
    /\ UNCHANGED <<probeVars, req, env, box, xyz, inp, packmol_version, scaled_box, file,
                   idx, atoms, rng, choices_log, prev_log, run_no>>

\* l. 165-169
S_Load ==
    /\ pc = "s_read"
    /\ SingleOutputName \in out
    /\ atoms' = <<Structure(SingleOutputName, req.pbc, box, scaled_box)>>
    /\ pc' = "done"
    /\ UNCHANGED <<probeVars, req, env, box, xyz, inp, out, spawned, packmol_version,
                   scaled_box, file, idx, rng, choices_log, prev_log, run_no>>


\* -------------------------------------------------------- MultiPackmol.run
\* l. 217-226: the seed, self.atoms, the box, the head of the script
M_Start ==
    /\ pc = "ready"
    /\ req.mode = "multi"
    /\ rng' = Reseed(req.seed, rng)
    /\ atoms' = <<>>
    /\ choices_log' = <<>>
    /\ idx' = 0
    /\ box' = ResolvedBox(req, box)
    /\ file' = [tolerance |-> req.tolerance, output |-> "",
                pbc |-> <<>>, blocks |-> <<>>]
    /\ pc' = "m_probe"
    /\ UNCHANGED <<probeVars, req, env, xyz, inp, out, spawned, packmol_version, scaled_box,
                   prev_log, run_no>>

\* l. 228
M_GetVersion ==
    /\ pc = "m_probe"
    /\ \E c \in Captures(env) : packmol_version' = ReturnedValue(c)
    /\ spawned' = spawned \cup {"packmol"}
    /\ pc' = "m_branch"
    /\ UNCHANGED <<probeVars, req, env, box, xyz, inp, out, scaled_box, file, idx, atoms,
                   rng, choices_log, prev_log, run_no>>

\* l. 231-250
M_Branch ==
    /\ pc = "m_branch"
    /\ IF packmol_version = <<>>
       THEN /\ pc' = "version_error"
            /\ UNCHANGED <<scaled_box, file>>
       ELSE /\ scaled_box' =
                   MultiScaledBox(req.pbc, packmol_version, box, req.tolerance)
            /\ file' = [file EXCEPT
                   !.pbc = MultiPbcLine(req.pbc, packmol_version, box)]
            /\ pc' = "m_coords"
    /\ UNCHANGED <<probeVars, req, env, box, xyz, inp, out, spawned, packmol_version, idx,
                   atoms, rng, choices_log, prev_log, run_no>>

\* l. 252-255: every instance of every species, in order
RECURSIVE Flatten(_)
Flatten(ss) == IF ss = <<>> THEN <<>> ELSE Head(ss) \o Flatten(Tail(ss))

MultiCoordWritesFirstOnly(r) ==
    Flatten([j \in DOMAIN r.data |->
        [k \in 1..(IF r.data[j] > 0 THEN 1 ELSE 0) |->
            Coord(MultiCoordName(j - 1, k - 1), j - 1, k - 1)]])

MultiCoordWrites(r) ==
    Flatten([j \in DOMAIN r.data |->
        [k \in 1..r.data[j] |->
            Coord(MultiCoordName(j - 1, k - 1), j - 1, k - 1)]])

M_WriteCoords ==
    /\ pc = "m_coords"
    /\ xyz' = WriteAll(xyz, MultiCoordWrites(req))
    /\ pc' = "m_loop"
    /\ UNCHANGED <<probeVars, req, env, box, inp, out, spawned, packmol_version, scaled_box,
                   file, idx, atoms, rng, choices_log, prev_log, run_no>>

\* l. 264-266: the draws of one configuration, species after species;
\* self.data[jdx] raises IndexError past the end of data, and
\* np.random.choice(0, count) raises ValueError for a count above 0
RECURSIVE Draws(_, _, _, _)
Draws(s, data, count, j) ==
    IF j > Len(count) THEN [state |-> s, picks |-> <<>>, ok |-> TRUE]
    ELSE IF j > Len(data) \/ (data[j] = 0 /\ count[j] > 0)
         THEN [state |-> s, picks |-> <<>>, ok |-> FALSE]
    ELSE LET c == Choice(s, data[j], count[j])
             rest == Draws(c.state, data, count, j + 1)
         IN  [state |-> rest.state, picks |-> <<c.choices>> \o rest.picks,
              ok |-> rest.ok]

\* l. 266-272: one block per placement
MultiBlocks(picks, scaled) ==
    Flatten([j \in DOMAIN picks |->
        [n \in DOMAIN picks[j] |->
            Block(MultiCoordName(j - 1, picks[j][n]), 1, FmtBox(scaled))]])

\* l. 257-274
M_BuildScript ==
    /\ pc = "m_loop"
    /\ idx < req.n_configurations
    /\ LET d == Draws(rng, req.data, req.count, 1)
       IN  /\ rng' = d.state
           /\ IF d.ok
              THEN /\ file' = [file EXCEPT !.output = MultiOutputName(idx),
                                           !.blocks = MultiBlocks(d.picks, scaled_box)]
                   /\ inp' = WriteFile(inp, [name |-> MultiScriptName(idx),
                                             text |-> file'])
                   /\ choices_log' = Append(choices_log, d.picks)
                   /\ pc' = "m_solve"
              ELSE /\ pc' = "choice_error"
                   /\ UNCHANGED <<file, inp, choices_log>>
    /\ UNCHANGED <<probeVars, req, env, box, xyz, out, spawned, packmol_version, scaled_box,
                   idx, atoms, prev_log, run_no>>

\* l. 276-278
M_Solve ==
    /\ pc = "m_solve"
    /\ spawned' = spawned \cup {"packmol < " \o MultiScriptName(idx)}
    /\ \/ /\ out' = out \cup {ScriptOnDisk(MultiScriptName(idx)).output}
          /\ pc' = "m_read"
       \/ /\ out' = out
          /\ pc' = "solver_error"
    /\ UNCHANGED <<probeVars, req, env, box, xyz, inp, packmol_version, scaled_box, file,
                   idx, atoms, rng, choices_log, prev_log, run_no>>

\* l. 280-285, and the step of the loop
M_Load ==
    /\ pc = "m_read"
    /\ MultiOutputName(idx) \in out
    /\ atoms' = Append(atoms,
                       Structure(MultiOutputName(idx), req.pbc, box, scaled_box))
    /\ idx' = idx + 1
    /\ pc' = "m_loop"
    /\ UNCHANGED <<probeVars, req, env, box, xyz, inp, out, spawned, packmol_version,
                   scaled_box, file, rng, choices_log, prev_log, run_no>>

\* l. 257: the loop ends
M_Done ==
    /\ pc = "m_loop"
    /\ idx >= req.n_configurations
    /\ pc' = "done"
    /\ UNCHANGED <<probeVars, req, env, box, xyz, inp, out, spawned, packmol_version,
                   scaled_box, file, idx, atoms, rng, choices_log, prev_log, run_no>>

\* a second execution of MultiPackmol.run on the same node, in the same
\* process: the global generator is in the state the first left it in
M_RunAgain ==
    /\ pc = "done"
    /\ req.mode = "multi"
    /\ run_no = 1
    /\ run_no' = 2
    /\ prev_log' = choices_log
    /\ pc' = "ready"
    /\ UNCHANGED <<probeVars, req, env, box, xyz, inp, out, spawned, packmol_version,
                   scaled_box, file, idx, atoms, rng, choices_log>>

Next ==
    \/ PostInit
    \/ S_WriteCoords
    \/ S_ResolveBox
    \/ S_GetVersion
    \/ S_Branch
    \/ S_WriteScript
    \/ S_Solve
    \/ S_Load
    \/ M_Start
    \/ M_GetVersion
    \/ M_Branch
    \/ M_WriteCoords
    \/ M_BuildScript
    \/ M_Solve
    \/ M_Load
    \/ M_Done
    \/ M_RunAgain

Spec == Init /\ [][Next]_vars


\* ------------------------------------------------------ get_packmol_version
\* the solver process: it prints its banner line by line, and then waits
\* for input for ever, unless it exits on its own
Proc_Print ==
    /\ proc = "running"
    /\ to_print # <<>>
    /\ pipe' = Append(pipe, Head(to_print))
    /\ to_print' = Tail(to_print)
    /\ UNCHANGED <<nodeVars, ppc, proc, rpc, output_lines, calls, result>>

Proc_Exit ==
    /\ proc = "running"
    /\ proc' = "exited"
    /\ UNCHANGED <<nodeVars, ppc, to_print, pipe, rpc, output_lines, calls, result>>

\* l. 36-43: the reader thread
R_ReadLine ==
    /\ rpc = "reading"
    /\ pipe # <<>>
    /\ output_lines' = Append(output_lines, Head(pipe))
    /\ pipe' = Tail(pipe)
    /\ rpc' = IF Head(pipe).word THEN "done" ELSE "reading"
    /\ UNCHANGED <<nodeVars, ppc, proc, to_print, calls, result>>

\* the end of the stream: the pipe is empty and its writer is gone
R_Eof ==
    /\ rpc = "reading"
    /\ pipe = <<>>
    /\ proc # "running"
    /\ rpc' = "done"
    /\ UNCHANGED <<nodeVars, ppc, proc, to_print, pipe, output_lines, calls, result>>

\* l. 42-43: a line that cannot be read
R_Error ==
    /\ rpc = "reading"
    /\ pipe # <<>>
    /\ output_lines' = Append(output_lines, ErrorLine)
    /\ pipe' = Tail(pipe)
    /\ rpc' = "done"
    /\ UNCHANGED <<nodeVars, ppc, proc, to_print, calls, result>>

Reader == R_ReadLine \/ R_Eof \/ R_Error

\* l. 32-34: Popen; a solver that cannot be started raises, and l. 65 returns
P_Popen ==
    /\ ppc = "idle"
    /\ IF env.launch
       THEN /\ proc' = "running"
            /\ to_print' = env.banner
            /\ ppc' = "start"
            /\ result' = result
       ELSE /\ result' = ExceptHandler("No such file or directory: 'packmol'")
            /\ ppc' = "returned"
            /\ UNCHANGED <<proc, to_print>>
    /\ UNCHANGED <<nodeVars, pipe, rpc, output_lines, calls>>

\* l. 45-47
P_StartReader ==
    /\ ppc = "start"
    /\ rpc' = "reading"
    /\ ppc' = "join1"
    /\ UNCHANGED <<nodeVars, proc, to_print, pipe, output_lines, calls, result>>

\* l. 49: join(timeout=1) returns when the reader has finished, or after 1 s
\* with the reader still at its read: in either state of the reader
P_JoinTimeout ==
    /\ ppc = "join1"
    /\ calls' = Append(calls, "join(timeout=1)")
    /\ ppc' = "poll"
    /\ UNCHANGED <<nodeVars, proc, to_print, pipe, rpc, output_lines, result>>

\* l. 51
P_PollSkipsTerminate ==
    /\ ppc = "poll"
    /\ ppc' = "join2"
    /\ UNCHANGED <<nodeVars, proc, to_print, pipe, rpc, output_lines, calls, result>>

P_Poll ==
    /\ ppc = "poll"
    /\ ppc' = IF proc = "running" THEN "terminate" ELSE "join2"
    /\ UNCHANGED <<nodeVars, proc, to_print, pipe, rpc, output_lines, calls, result>>

\* l. 52: terminate() signals the process unless it has exited meanwhile
P_Terminate ==
    /\ ppc = "terminate"
    /\ proc' = IF proc = "running" THEN "terminated" ELSE proc
    /\ calls' = Append(calls, "terminate()")
    /\ ppc' = "wait"
    /\ UNCHANGED <<nodeVars, to_print, pipe, rpc, output_lines, result>>

\* l. 53
P_Wait ==
    /\ ppc = "wait"
    /\ proc # "running"
    /\ ppc' = "join2"
    /\ UNCHANGED <<nodeVars, proc, to_print, pipe, rpc, output_lines, calls, result>>

\* l. 55: join() returns when the reader has finished
P_Join ==
    /\ ppc = "join2"
    /\ rpc = "done"
    /\ calls' = Append(calls, "join()")
    /\ ppc' = "search"
    /\ UNCHANGED <<nodeVars, proc, to_print, pipe, rpc, output_lines, result>>

\* l. 56-66
P_Search ==
    /\ ppc = "search"
    /\ result' = GetVersionOutcome(output_lines)
    /\ ppc' = "returned"
    /\ UNCHANGED <<nodeVars, proc, to_print, pipe, rpc, output_lines, calls>>

Prober ==
    \/ P_Popen
    \/ P_StartReader
    \/ P_JoinTimeout
    \/ P_Poll
    \/ P_Terminate
    \/ P_Wait
    \/ P_Join
    \/ P_Search

LineKinds == {PlainLine, WordLine, VersionLine(V18_3_0), VersionLine(V20_15_1)}
ProbeBanners == SeqsUpTo(LineKinds, 0, MaxLines)

\* the node is at its call of get_packmol_version
ProbeInit ==
    /\ req = Req("single", <<1>>, <<1>>, FALSE, <<>>, 200000,
                 <<1000000, 1000000, 1000000>>, <<>>, TRUE, 0, 42)
    /\ env \in {Env(b, l) : b \in ProbeBanners, l \in BOOLEAN}
    /\ pc = "s_probe"
    /\ box = req.box
    /\ xyz = {Coord(SingleCoordName(0), 0, 0)}
    /\ inp = {}
    /\ out = {}
    /\ spawned = {}
    /\ packmol_version = <<>>
    /\ scaled_box = <<>>
    /\ file = [tolerance |-> req.tolerance, output |-> SingleOutputName,
               pbc |-> <<>>, blocks |-> <<>>]
    /\ idx = 0
    /\ atoms = <<>>
    /\ rng = 3
    /\ choices_log = <<>>
    /\ prev_log = <<>>
    /\ run_no = 1
    /\ ProbeIdle

ProbeNext ==
    \/ Proc_Print
    \/ Proc_Exit
    \/ R_ReadLine
    \/ R_Eof
    \/ R_Error
    \/ P_Popen
    \/ P_StartReader
    \/ P_JoinTimeout
    \/ P_Poll
    \/ P_Terminate
    \/ P_Wait
    \/ P_Join
    \/ P_Search

\* the two threads are scheduled; the process owes nothing
ProbeSpec ==
    ProbeInit /\ [][ProbeNext]_vars /\ WF_vars(Prober) /\ WF_vars(Reader)


\* What the node takes as the probe's result (Captures) covers every result
\* the probe can return: checked under ProbeSpec.
ProbeWithinCaptures ==
    ppc = "returned" =>
        result.version \in {ReturnedValue(c) : c \in Captures(env)}

\* =================================================================== claims
\* the box of the request before any scaling: the density-derived box when a
\* density is given, else the given box (a scalar made a cube)
UnscaledBox ==
    IF req.density # <<>>
    THEN BoxFromDensity(req.data, req.count, req.density[1])
    ELSE Broadcast(req.box)

AtSolve == pc \in {"s_solve", "m_solve"}

ScriptRun ==
    ScriptOnDisk(IF req.mode = "single" THEN SingleScriptName
                 ELSE MultiScriptName(idx))

NativePbc == req.pbc /\ VersionInt(packmol_version) >= 20150
Shrunk == req.pbc /\ VersionInt(packmol_version) < 20150

C2_Cell ==
    \A i \in DOMAIN atoms :
        /\ atoms[i].pbc = req.pbc
        /\ atoms[i].cell = IF req.pbc THEN UnscaledBox ELSE <<>>

\* a structure read back after the script was built with the shrunk box
C2_Witness ==
    /\ pc = "done"
    /\ req.pbc
    /\ atoms # <<>>
    /\ scaled_box # UnscaledBox
    /\ atoms[Len(atoms)].cell = UnscaledBox
    /\ req.density # <<>>

\* C3: a request with len(data) # len(count), or with data_ids given and
\* len(data) # len(data_ids), or with neither box nor density, is rejected at
\* construction: no file is written and no subprocess is started.
C3_Rejected ==
    (\/ Len(req.data) # Len(req.count)
     \/ req.has_ids /\ Len(req.data) # Len(req.data_ids)
     \/ req.box = <<>> /\ req.density = <<>>)
    => /\ pc \in {"new", "config_error"}
       /\ xyz = {} /\ inp = {} /\ out = {} /\ spawned = {}
       /\ atoms = <<>>

C3_Witness ==
    /\ pc = "config_error"
    /\ Len(req.data) # Len(req.count)
    /\ req.box # <<>>

\* C4: a request that sets both box and density is rejected at construction
\* (the claim as stated; the code accepts it).
C4_BothRejected ==
    (req.box # <<>> /\ req.density # <<>>) => pc \in {"new", "config_error"}

\* C5: get_packmol_version ends in an error, not in a returned value, when
\* the captured banner holds no token "Version X.Y.Z" (the claim as stated;
\* the code returns a text).
C5_RaisesWithoutToken ==
    (ppc = "returned" /\ proc # "none" /\ VersionSearch(output_lines) = <<>>)
        => result.kind = "raise"

\* C6: two executions of MultiPackmol.run with the same seed, pools and
\* counts draw the same indices, configuration by configuration and species
\* by species; each configuration draws count[j] indices in 0..len(data[j])-1
\* for every species j.
C6_SameDraws ==
    /\ run_no = 2 =>
          /\ Len(choices_log) <= Len(prev_log)
          /\ \A i \in DOMAIN choices_log : choices_log[i] = prev_log[i]
    /\ (pc = "done" /\ req.mode = "multi") =>
          Len(choices_log) = req.n_configurations
    /\ \A i \in DOMAIN choices_log :
          /\ Len(choices_log[i]) = Len(req.count)
          /\ \A j \in DOMAIN choices_log[i] :
                /\ Len(choices_log[i][j]) = req.count[j]
                /\ \A n \in DOMAIN choices_log[i][j] :
                      choices_log[i][j][n] \in 0..(req.data[j] - 1)

\* the second execution has ended, with an instance drawn twice for a species
C6_Witness ==
    /\ run_no = 2
    /\ pc = "done"
    /\ Len(choices_log) = 2
    /\ choices_log = prev_log
    /\ choices_log[1] # choices_log[2]
    /\ \E i \in DOMAIN choices_log : \E j \in DOMAIN choices_log[i] :
          /\ Len(choices_log[i][j]) = 2
          /\ choices_log[i][j][1] = choices_log[i][j][2]


\* C7: get_packmol_version returns in every interleaving of the process, the
\* reader and the timeout; the process is ended by terminate() only, after
\* join(timeout=1) has returned and only while it is running; the join()
\* without timeout comes after terminate(); and when the probe returns the
\* process is not running and the reader has finished.
C7_Order ==
    /\ \A i \in DOMAIN calls :
          calls[i] = "terminate()" =>
             \E j \in 1..(i - 1) : calls[j] = "join(timeout=1)"
    /\ \A i \in DOMAIN calls :
          calls[i] = "join()" =>
             \A j \in DOMAIN calls : calls[j] = "terminate()" => j < i
    /\ proc = "terminated" => \E i \in DOMAIN calls : calls[i] = "terminate()"
    /\ ppc = "returned" => proc # "running" /\ rpc # "reading"

C7_TerminateStep ==
    (proc' = "terminated" /\ proc # "terminated")
        => (proc = "running" /\ ppc = "terminate")

C7_Probe ==
    /\ []C7_Order
    /\ [][C7_TerminateStep]_vars
    /\ <>(ppc = "returned")

\* the solver printed no version line and waited at its prompt: the timeout
\* passed, the process was terminated, the reader saw the end of the stream
C7_Witness ==
    /\ ppc = "returned"
    /\ proc = "terminated"
    /\ rpc = "done"
    /\ to_print = <<>>
    /\ output_lines = <<PlainLine, PlainLine>>
    /\ calls = <<"join(timeout=1)", "terminate()", "join()">>

\* C8: when the solver is called, every coordinate file a structure block
\* names has been written: idx.xyz for species idx in Packmol.run; in
\* MultiPackmol.run jdx_kdx.xyz for an instance kdx of species jdx, all of
\* them written before the first configuration is solved.  The names of
\* coordinate files, scripts and outputs do not collide.
MultiNamesDrawn(picks) ==
    Flatten([j \in DOMAIN picks |->
        [n \in DOMAIN picks[j] |-> MultiCoordName(j - 1, picks[j][n])]])

C8_FilesWritten ==
    /\ pc = "s_solve" =>
          LET t == ScriptOnDisk(SingleScriptName)
          IN  /\ Len(t.blocks) = Len(req.count)
              /\ \A i \in DOMAIN t.blocks :
                    /\ t.blocks[i].structure = SingleCoordName(i - 1)
                    /\ \E f \in xyz :
                          f.name = t.blocks[i].structure /\ f.species = i - 1
    /\ pc \in {"m_loop", "m_solve", "m_read"} =>
          \A j \in DOMAIN req.data : \A k \in 0..(req.data[j] - 1) :
              Coord(MultiCoordName(j - 1, k), j - 1, k) \in xyz
    /\ pc = "m_solve" =>
          LET t == ScriptOnDisk(MultiScriptName(idx))
              names == MultiNamesDrawn(choices_log[idx + 1])
          IN  /\ Len(t.blocks) = SumSeq(req.count)
              /\ Len(names) = Len(t.blocks)
              /\ \A i \in DOMAIN t.blocks :
                    /\ t.blocks[i].structure = names[i]
                    /\ \E f \in xyz :
                          /\ f.name = t.blocks[i].structure
                          /\ f.instance \in 0..(req.data[f.species + 1] - 1)
    /\ Names(xyz) \cap Names(inp) = {}
    /\ out \cap (Names(xyz) \cup Names(inp)) = {}
    /\ (pc = "done" /\ req.mode = "multi") =>
          /\ Cardinality(Names(inp)) = req.n_configurations
          /\ Cardinality(out) = req.n_configurations
          /\ Cardinality(Names(xyz)) = SumSeq(req.data)

\* the second configuration is about to be solved; its script names the
\* second instance of the second species
C8_Witness ==
    /\ pc = "m_solve"
    /\ idx = 1
    /\ run_no = 1
    /\ Len(req.data) = 2
    /\ \E i \in DOMAIN ScriptRun.blocks :
          ScriptRun.blocks[i].structure = MultiCoordName(1, 1)
    /\ Cardinality(xyz) = 4

\* C9: the pbc directive is used exactly when the probed version is 20.15.0
\* or later in the order of versions (the claim as stated; the code compares
\* the concatenated digits).
C9_GateIsSemantic ==
    pc \in {"s_script", "m_coords"} =>
        ((file.pbc # <<>>) <=> (req.pbc /\ SemLeq(V20_15_0, packmol_version)))

\* C10: every extent written in an inside box constraint is above zero when
\* the solver is called, for a box and a tolerance above zero (the claim as
\* stated; the code writes box - 2*tolerance unchecked).
C10_PositiveExtent ==
    (AtSolve /\ req.tolerance > 0 /\ \A a \in DOMAIN UnscaledBox : UnscaledBox[a] > 0)
        => \A i \in DOMAIN ScriptRun.blocks :
              \A a \in DOMAIN ScriptRun.blocks[i].inside :
                  ScriptRun.blocks[i].inside[a] > 0

=============================================================================
